---- MODULE Spec2Model ----
(***************************************************************************)
(* Modbus RTU stream decoder of src/stream.py: crc16, split_frames,        *)
(* decode_frames, decode_message and the read loop of main.                *)
(***************************************************************************)
EXTENDS Integers, Sequences, FiniteSets, TLC

VARIABLES
    pc,      \* position of the script: "argcheck", "connect", "recv", "scan", "decode", "exit"
    argc,    \* len(sys.argv)
    portOk,  \* whether int(sys.argv[2]) succeeds
    sock,    \* "none", "open", "closed"
    closes,  \* number of sock.close() calls
    wire,    \* bytes the peer has sent and recv has not yet returned
    reads,   \* number of sock.recv calls issued
    chunks,  \* the non-empty results of recv so far, in order
    data,    \* the local `data` of main / argument of split_frames
    i,       \* cursor of split_frames
    frames,  \* list built by split_frames, then consumed by decode_frames
    out,     \* everything printed so far, in order
    err,     \* how the script ended: "none" while running or after a clean end
    seen,    \* the iterations of the current split_frames call: cursor and outcome
    base,    \* decoder harness: a checksum-valid frame
    msg,     \* decoder harness: the argument given to decode_message
    res      \* decoder harness: what decode_message did with msg

\* scripts/post_build.py
VARIABLES
    step,       \* position of the build script: "off" when it is not run
    where,      \* the working directory: "repo", "gitdir" (inside .git), "none"
    changes,    \* number of uncommitted changed files when the script starts
    detached,   \* whether HEAD is detached
    branch,     \* main's local `branch`, "" before it is assigned
    staged,     \* number of changed files in the index
    adds,       \* number of `git add -A` runs
    commits,    \* number of `git commit` runs
    committed,  \* whether a commit was created
    tags,       \* number of `git tag` runs
    tagged,     \* whether a tag was created
    exit_code   \* what main returned, -1 while it runs

vars == <<pc, argc, portOk, sock, closes, wire, reads, chunks, data, i, frames,
          out, err, seen, base, msg, res, step, where, changes, detached,
          branch, staged, adds, commits, committed, tags, tagged, exit_code>>

pumpVars == <<pc, argc, portOk, sock, closes, wire, reads, chunks, data, i,
              frames, out, err, seen>>

harnessVars == <<base, msg, res>>

buildVars == <<step, where, changes, detached, branch, staged, adds, commits, committed,
               tags, tagged, exit_code>>

\* the build script is not part of the run
BuildOff ==
    /\ step = "off"
    /\ where = "none"
    /\ changes = 0
    /\ detached = FALSE
    /\ branch = ""
    /\ staged = 0
    /\ adds = 0
    /\ commits = 0
    /\ committed = FALSE
    /\ tags = 0
    /\ tagged = FALSE
    /\ exit_code = -1

----------------------------------------------------------------------------
(* Program constants *)

BUFFER_SIZE == 1024

CrcInit == 65535

CrcPoly == 40961

FC_READ == 3

MaxRegisters == 125

RequestLen == 8

MinMessageLen == 5

\* 3 + byte_count + 2 with the largest byte
MaxFrameLen == 260

ArgcWanted == 3

(* Bounds of the model *)

MaxReads == 2

MaxGarbage == 2

MaxArgc == 4

MaxBody == 4

MaxMutBody == 4

MaxBuffer == 8

MaxChanges == 3

----------------------------------------------------------------------------
(* Integer helpers *)

Min(a, b) == IF a <= b THEN a ELSE b

\* bit w (a power of two) of a ^ b
XorBit(a, b, w) == ((((a \div w) % 2) + ((b \div w) % 2)) % 2) * w

\* ^ on 4-bit values, tabulated once: entry a * 16 + b holds a ^ b
XorNibble ==
    [ab \in 0..255 |->
        LET a == ab \div 16
            b == ab % 16
        IN XorBit(a, b, 1) + XorBit(a, b, 2) + XorBit(a, b, 4) + XorBit(a, b, 8)]

\* a ^ b on 16-bit values, four bits at a time
Xor(a, b) ==
    XorNibble[(a \div 4096) * 16 + (b \div 4096)] * 4096
    + XorNibble[((a \div 256) % 16) * 16 + ((b \div 256) % 16)] * 256
    + XorNibble[((a \div 16) % 16) * 16 + ((b \div 16) % 16)] * 16
    + XorNibble[(a % 16) * 16 + (b % 16)]

\* data[k] with the 0-based index of the source
At(s, k) == s[k + 1]

\* data[a:b] of the source (0-based, b exclusive, clipped to the length)
Slice(s, a, b) == SubSeq(s, a + 1, Min(b, Len(s)))

----------------------------------------------------------------------------
(* crc16 *)

\* one pass of the inner loop: test the low bit, shift, feed back
CrcShift(crc) ==
    IF crc % 2 # 0 THEN Xor(crc \div 2, CrcPoly) ELSE crc \div 2

\* the eight passes of the inner loop
CrcBits[n \in 0..8, crc \in 0..65535] ==
    IF n = 0 THEN crc ELSE CrcBits[n - 1, CrcShift(crc)]

\* the body of the outer loop for one byte
CrcByte(crc, pos) == CrcBits[8, Xor(crc, pos)]

\* crc16 with the register started at 0x0000 instead of 0xFFFF
crc16_zero_init(bytes) ==
    LET loop[k \in 1..(Len(bytes) + 1), crc \in 0..65535] ==
            IF k > Len(bytes) THEN crc ELSE loop[k + 1, CrcByte(crc, bytes[k])]
    IN loop[1, 0]

crc16(bytes) ==
    LET loop[k \in 1..(Len(bytes) + 1), crc \in 0..65535] ==
            IF k > Len(bytes) THEN crc ELSE loop[k + 1, CrcByte(crc, bytes[k])]
    IN loop[1, CrcInit]

----------------------------------------------------------------------------
(* decode_message: what one call prints, or the exception it raises *)

\* RegistersRaise of a comprehension that stops before a lone last byte
RegistersNeverRaise(register_data) == FALSE

\* the list comprehension of the response branch: register_data[i+1] is out
\* of range for the last i when len(register_data) is odd
RegistersRaise(register_data) == Len(register_data) % 2 = 1

\* Registers with the two bytes of each value swapped (little-endian)
RegistersLittleEndian(register_data) ==
    [k \in 1..(Len(register_data) \div 2) |->
        register_data[2 * k - 1] + register_data[2 * k] * 256]

Registers(register_data) ==
    [k \in 1..(Len(register_data) \div 2) |->
        register_data[2 * k - 1] * 256 + register_data[2 * k]]

\* CrcMatches comparing the low checksum byte only
CrcMatchesLowByte(message) ==
    LET n == Len(message)
        calculated_crc == crc16(SubSeq(message, 1, n - 2))
    IN message[n - 1] = calculated_crc % 256

CrcMatches(message) ==
    LET n == Len(message)
        received_crc == message[n - 1] + message[n] * 256
        calculated_crc == crc16(SubSeq(message, 1, n - 2))
    IN received_crc = calculated_crc

\* decode_message that tells request from response by the value at offsets
\* 2..3, as split_frames does, instead of by the length
decode_message_by_value(message) ==
    IF Len(message) < MinMessageLen THEN [kind |-> "Incomplete"]
    ELSE IF ~CrcMatches(message) THEN [kind |-> "CRCFail"]
    ELSE LET slave_id == message[1]
             function_code == message[2]
         IN IF function_code = FC_READ
            THEN IF message[3] * 256 + message[4] <= MaxRegisters
                 THEN [kind |-> "Request", unit_id |-> slave_id,
                       function_code |-> function_code,
                       start_address |-> message[3] * 256 + message[4],
                       register_count |-> message[5] * 256 + message[6]]
                 ELSE LET byte_count == message[3]
                          register_data == Slice(message, 3, 3 + byte_count)
                      IN IF RegistersRaise(register_data)
                         THEN [kind |-> "IndexError"]
                         ELSE [kind |-> "Response", unit_id |-> slave_id,
                               function_code |-> function_code,
                               byte_count |-> byte_count,
                               registers |-> Registers(register_data)]
            ELSE [kind |-> "Unsupported", function_code |-> function_code]

decode_message(message) ==
    IF Len(message) < MinMessageLen THEN [kind |-> "Incomplete"]
    ELSE IF ~CrcMatches(message) THEN [kind |-> "CRCFail"]
    ELSE LET slave_id == message[1]
             function_code == message[2]
         IN IF function_code = FC_READ
            THEN IF Len(message) = RequestLen
                 THEN [kind |-> "Request", unit_id |-> slave_id,
                       function_code |-> function_code,
                       start_address |-> message[3] * 256 + message[4],
                       register_count |-> message[5] * 256 + message[6]]
                 ELSE LET byte_count == message[3]
                          register_data == Slice(message, 3, 3 + byte_count)
                      IN IF RegistersRaise(register_data)
                         THEN [kind |-> "IndexError"]
                         ELSE [kind |-> "Response", unit_id |-> slave_id,
                               function_code |-> function_code,
                               byte_count |-> byte_count,
                               registers |-> Registers(register_data)]
            ELSE [kind |-> "Unsupported", function_code |-> function_code]

\* the prints that hand a decoded message to the sink (the others are notices)
IsMessage(e) == e.kind \in {"Request", "Response", "Unsupported"}

Messages(log) == SelectSeq(log, IsMessage)

----------------------------------------------------------------------------
(* split_frames *)

\* the test of the first branch of the heuristic: a request is assumed
RequestClass(bytes, k) ==
    /\ k + 5 <= Len(bytes)
    /\ At(bytes, k + 2) * 256 + At(bytes, k + 3) <= MaxRegisters

\* FrameLen that leaves the two checksum bytes out of a response's length
FrameLenNoChecksum(bytes, k) ==
    IF RequestClass(bytes, k)
    THEN RequestLen
    ELSE IF k + 2 < Len(bytes)
    THEN 3 + At(bytes, k + 2)
    ELSE 0

\* FrameLen that compares data[i+3] alone with the register maximum
FrameLenLowByteOnly(bytes, k) ==
    IF k + 5 <= Len(bytes) /\ At(bytes, k + 3) <= MaxRegisters
    THEN RequestLen
    ELSE IF k + 2 < Len(bytes)
    THEN 3 + At(bytes, k + 2) + 2
    ELSE 0

\* FrameLen that asks for 6 available bytes before it classifies a request
FrameLenNeedsSix(bytes, k) ==
    IF k + 6 <= Len(bytes)
       /\ At(bytes, k + 2) * 256 + At(bytes, k + 3) <= MaxRegisters
    THEN RequestLen
    ELSE IF k + 2 < Len(bytes)
    THEN 3 + At(bytes, k + 2) + 2
    ELSE 0

\* the length the heuristic gives the frame at cursor k, 0 when neither
\* branch applies
FrameLen(bytes, k) ==
    IF RequestClass(bytes, k)
    THEN RequestLen
    ELSE IF k + 2 < Len(bytes)
    THEN 3 + At(bytes, k + 2) + 2
    ELSE 0

\* ScanStep without the function-code test: every position is a frame start
ScanStepAnyFunction(bytes, k) ==
    IF k + 4 > Len(bytes) THEN [op |-> "break", len |-> 0]
    ELSE LET frame_len == FrameLen(bytes, k)
         IN IF frame_len = 0 THEN [op |-> "break", len |-> 0]
            ELSE IF k + frame_len <= Len(bytes)
            THEN [op |-> "emit", len |-> frame_len]
            ELSE [op |-> "break", len |-> 0]

\* ScanStep that gives up at a function code that does not match
ScanStepBreaksOnMismatch(bytes, k) ==
    IF k + 4 > Len(bytes) THEN [op |-> "break", len |-> 0]
    ELSE IF At(bytes, k + 1) = FC_READ
    THEN LET frame_len == FrameLen(bytes, k)
         IN IF frame_len = 0 THEN [op |-> "break", len |-> 0]
            ELSE IF k + frame_len <= Len(bytes)
            THEN [op |-> "emit", len |-> frame_len]
            ELSE [op |-> "break", len |-> 0]
    ELSE [op |-> "break", len |-> 0]

\* one iteration of the while loop at cursor k < len(data)
ScanStep(bytes, k) ==
    IF k + 4 > Len(bytes) THEN [op |-> "break", len |-> 0]
    ELSE IF At(bytes, k + 1) = FC_READ
    THEN LET frame_len == FrameLen(bytes, k)
         IN IF frame_len = 0 THEN [op |-> "break", len |-> 0]
            ELSE IF k + frame_len <= Len(bytes)
            THEN [op |-> "emit", len |-> frame_len]
            ELSE [op |-> "break", len |-> 0]
    ELSE [op |-> "skip", len |-> 1]

\* the whole loop from cursor k with the list built so far: the list returned
\* and the cursor the loop stopped at
RECURSIVE SplitFrom(_, _, _)
SplitFrom(bytes, k, acc) ==
    IF ~(k < Len(bytes)) THEN [frames |-> acc, stop |-> k]
    ELSE LET s == ScanStep(bytes, k)
         IN IF s.op = "break" THEN [frames |-> acc, stop |-> k]
            ELSE IF s.op = "emit"
            THEN SplitFrom(bytes, k + s.len,
                           Append(acc, Slice(bytes, k, k + s.len)))
            ELSE SplitFrom(bytes, k + 1, acc)

split_frames(bytes) == SplitFrom(bytes, 0, <<>>).frames

----------------------------------------------------------------------------
(* The Frame Splitter algorithm as specified, steps 1 to 4, for comparison *)
(* with split_frames                                                       *)

SpecifiedLen(bytes, k) ==
    LET available == Len(bytes) - k
    IN IF available >= 4
          /\ At(bytes, k + 2) * 256 + At(bytes, k + 3) <= 125
       THEN 8
       ELSE IF available >= 3
       THEN 3 + At(bytes, k + 2) + 2
       ELSE 0

SpecifiedStep(bytes, k) ==
    LET available == Len(bytes) - k
    IN IF available < 4 THEN [op |-> "break", len |-> 0]
       ELSE IF At(bytes, k + 1) = 3
       THEN LET length == SpecifiedLen(bytes, k)
            IN IF length = 0 \/ length > available
               THEN [op |-> "break", len |-> 0]
               ELSE [op |-> "emit", len |-> length]
       ELSE [op |-> "skip", len |-> 1]

RECURSIVE SpecifiedSplitFrom(_, _, _)
SpecifiedSplitFrom(bytes, k, acc) ==
    IF ~(k < Len(bytes)) THEN [frames |-> acc, stop |-> k]
    ELSE LET s == SpecifiedStep(bytes, k)
         IN IF s.op = "break" THEN [frames |-> acc, stop |-> k]
            ELSE IF s.op = "emit"
            THEN SpecifiedSplitFrom(bytes, k + s.len,
                                    Append(acc, Slice(bytes, k, k + s.len)))
            ELSE SpecifiedSplitFrom(bytes, k + 1, acc)

----------------------------------------------------------------------------
(* decode_frames: the prints of the calls made, and whether one raised *)

RECURSIVE DecodeFrom(_, _)
DecodeFrom(fs, log) ==
    IF fs = <<>> THEN [out |-> log, err |-> "none"]
    ELSE LET r == decode_message(Head(fs))
         IN IF r.kind = "IndexError" THEN [out |-> log, err |-> "IndexError"]
            ELSE DecodeFrom(Tail(fs), Append(log, r))

decode_frames(fs) == DecodeFrom(fs, <<>>)

----------------------------------------------------------------------------
(* What the peer may send *)

MkFrame(p) == LET c == crc16(p) IN p \o <<c % 256, c \div 256>>

\* a frame with its last checksum byte damaged
Damaged(f) == [f EXCEPT ![Len(f)] = (f[Len(f)] + 1) % 256]

Request(u, addr, count) ==
    MkFrame(<<u, FC_READ, addr \div 256, addr % 256, count \div 256, count % 256>>)

Response(u, body) == MkFrame(<<u, FC_READ, Len(body)>> \o body)

Units == {1, 3}

Addresses == {0, 125, 126, 770}

Counts == {10}

Bodies == {<<>>, <<7>>, <<0, 10>>, <<0, 1, 2>>}

Requests == {Request(u, a, c) : u \in Units, a \in Addresses, c \in Counts}

Responses == {Response(u, b) : u \in Units, b \in Bodies}

Foreign == {MkFrame(<<1, 4, 2, 0, 10>>)}

ValidFrames == Requests \cup Responses \cup Foreign

DamagedFrames == {Damaged(Request(1, 0, 10)), Damaged(Response(1, <<0, 10>>))}

GarbageBytes == {0, 255}

RECURSIVE SeqsUpTo(_, _)
SeqsUpTo(S, n) ==
    IF n = 0 THEN {<<>>}
    ELSE LET shorter == SeqsUpTo(S, n - 1)
         IN shorter \cup {Append(s, x) : s \in shorter, x \in S}

Garbage == SeqsUpTo(GarbageBytes, MaxGarbage)

Followers == {Request(1, 0, 10), Response(1, <<0, 10>>), Response(1, <<7>>)}

Leaders == DamagedFrames \cup Followers \cup {Response(1, <<>>)}

Streams ==
    {g \o f : g \in Garbage, f \in ValidFrames \cup DamagedFrames}
    \cup {f \o h : f \in Leaders, h \in Followers}

----------------------------------------------------------------------------
(* The script: module-level argument handling, then main *)

NoResult == [kind |-> "None"]

Init ==
    /\ pc = "argcheck"
    /\ argc \in 1..MaxArgc
    /\ portOk \in BOOLEAN
    /\ sock = "none"
    /\ closes = 0
    /\ wire = <<>>
    /\ reads = 0
    /\ chunks = <<>>
    /\ data = <<>>
    /\ i = 0
    /\ frames = <<>>
    /\ out = <<>>
    /\ err = "none"
    /\ seen = <<>>
    /\ base = <<>>
    /\ msg = <<>>
    /\ res = NoResult
    /\ BuildOff

\* Usage without the sys.exit(1): the script goes on after the notice
UsageGoesOn ==
    /\ pc = "argcheck"
    /\ argc # ArgcWanted
    /\ out' = Append(out, [kind |-> "Usage"])
    /\ pc' = "connect"
    /\ UNCHANGED <<argc, portOk, sock, closes, wire, reads, chunks, data, i, frames, err, seen>>
    /\ UNCHANGED harnessVars
    /\ UNCHANGED buildVars

\* len(sys.argv) != 3: usage notice, sys.exit(1)
Usage ==
    /\ pc = "argcheck"
    /\ argc # ArgcWanted
    /\ out' = Append(out, [kind |-> "Usage"])
    /\ err' = "SystemExit"
    /\ pc' = "exit"
    /\ UNCHANGED <<argc, portOk, sock, closes, wire, reads, chunks, data, i, frames, seen>>
    /\ UNCHANGED harnessVars
    /\ UNCHANGED buildVars

\* int(sys.argv[2]) raises ValueError
BadPort ==
    /\ pc = "argcheck"
    /\ argc = ArgcWanted
    /\ ~portOk
    /\ err' = "ValueError"
    /\ pc' = "exit"
    /\ UNCHANGED <<argc, portOk, sock, closes, wire, reads, chunks, data, i, frames, out, seen>>
    /\ UNCHANGED harnessVars
    /\ UNCHANGED buildVars

ArgsOk ==
    /\ pc = "argcheck"
    /\ argc = ArgcWanted
    /\ portOk
    /\ pc' = "connect"
    /\ UNCHANGED <<argc, portOk, sock, closes, wire, reads, chunks, data, i, frames, out, err, seen>>
    /\ UNCHANGED harnessVars
    /\ UNCHANGED buildVars

\* sock.connect succeeds; what the peer will send is fixed from here on
ConnectOk ==
    /\ pc = "connect"
    /\ sock' = "open"
    /\ wire' \in Streams
    /\ pc' = "recv"
    /\ UNCHANGED <<argc, portOk, closes, reads, chunks, data, i, frames, out, err, seen>>
    /\ UNCHANGED harnessVars
    /\ UNCHANGED buildVars

\* sock.connect raises, outside the try block: nothing closes the socket
ConnectFail ==
    /\ pc = "connect"
    /\ err' = "ConnectError"
    /\ pc' = "exit"
    /\ UNCHANGED <<argc, portOk, sock, closes, wire, reads, chunks, data, i, frames, out, seen>>
    /\ UNCHANGED harnessVars
    /\ UNCHANGED buildVars

\* recv returns 1..BUFFER_SIZE bytes; split_frames starts on them alone
RecvData ==
    /\ pc = "recv"
    /\ reads < MaxReads
    /\ \E n \in 1..Min(Len(wire), BUFFER_SIZE) :
          /\ data' = SubSeq(wire, 1, n)
          /\ wire' = SubSeq(wire, n + 1, Len(wire))
          /\ chunks' = Append(chunks, SubSeq(wire, 1, n))
    /\ reads' = reads + 1
    /\ i' = 0
    /\ frames' = <<>>
    /\ seen' = <<>>
    /\ pc' = "scan"
    /\ UNCHANGED <<argc, portOk, sock, closes, out, err>>
    /\ UNCHANGED harnessVars
    /\ UNCHANGED buildVars

\* recv returns b'': break, then the finally clause closes the socket
RecvEof ==
    /\ pc = "recv"
    /\ wire = <<>>
    /\ data' = <<>>
    /\ reads' = reads + 1
    /\ sock' = "closed"
    /\ closes' = closes + 1
    /\ pc' = "exit"
    /\ UNCHANGED <<argc, portOk, wire, chunks, i, frames, out, err, seen>>
    /\ UNCHANGED harnessVars
    /\ UNCHANGED buildVars

\* RecvError without the finally clause: the socket stays open
RecvErrorLeavesOpen ==
    /\ pc = "recv"
    /\ reads' = reads + 1
    /\ err' = "RecvError"
    /\ pc' = "exit"
    /\ UNCHANGED <<argc, portOk, sock, closes, wire, chunks, data, i, frames, out, seen>>
    /\ UNCHANGED harnessVars
    /\ UNCHANGED buildVars

\* recv raises: the finally clause closes the socket and the error propagates
RecvError ==
    /\ pc = "recv"
    /\ reads' = reads + 1
    /\ sock' = "closed"
    /\ closes' = closes + 1
    /\ err' = "RecvError"
    /\ pc' = "exit"
    /\ UNCHANGED <<argc, portOk, wire, chunks, data, i, frames, out, seen>>
    /\ UNCHANGED harnessVars
    /\ UNCHANGED buildVars

\* ScanSkip that leaves the cursor where it is
ScanSkipStays ==
    /\ pc = "scan"
    /\ i < Len(data)
    /\ ScanStep(data, i).op = "skip"
    /\ i' = i
    /\ seen' = IF Len(seen) < Len(data)
                THEN Append(seen, [at |-> i, op |-> "skip", len |-> 1])
                ELSE seen
    /\ UNCHANGED <<pc, argc, portOk, sock, closes, wire, reads, chunks, data, frames, out, err>>
    /\ UNCHANGED harnessVars
    /\ UNCHANGED buildVars

\* ScanSkip that moves the cursor two bytes on
ScanSkipsTwo ==
    /\ pc = "scan"
    /\ i < Len(data)
    /\ ScanStep(data, i).op = "skip"
    /\ i' = i + 2
    /\ seen' = Append(seen, [at |-> i, op |-> "skip", len |-> 1])
    /\ UNCHANGED <<pc, argc, portOk, sock, closes, wire, reads, chunks, data, frames, out, err>>
    /\ UNCHANGED harnessVars
    /\ UNCHANGED buildVars

\* split_frames, one iteration: function code does not match
ScanSkip ==
    /\ pc = "scan"
    /\ i < Len(data)
    /\ ScanStep(data, i).op = "skip"
    /\ i' = i + 1
    /\ seen' = Append(seen, [at |-> i, op |-> "skip", len |-> 1])
    /\ UNCHANGED <<pc, argc, portOk, sock, closes, wire, reads, chunks, data, frames, out, err>>
    /\ UNCHANGED harnessVars
    /\ UNCHANGED buildVars

\* ScanEmit that moves the cursor one byte on, as after a mismatch
ScanEmitResumesInside ==
    /\ pc = "scan"
    /\ i < Len(data)
    /\ ScanStep(data, i).op = "emit"
    /\ frames' = Append(frames, Slice(data, i, i + ScanStep(data, i).len))
    /\ i' = i + 1
    /\ seen' = Append(seen, [at |-> i, op |-> "emit", len |-> ScanStep(data, i).len])
    /\ UNCHANGED <<pc, argc, portOk, sock, closes, wire, reads, chunks, data, out, err>>
    /\ UNCHANGED harnessVars
    /\ UNCHANGED buildVars

\* split_frames, one iteration: a whole candidate is appended
ScanEmit ==
    /\ pc = "scan"
    /\ i < Len(data)
    /\ ScanStep(data, i).op = "emit"
    /\ frames' = Append(frames, Slice(data, i, i + ScanStep(data, i).len))
    /\ i' = i + ScanStep(data, i).len
    /\ seen' = Append(seen, [at |-> i, op |-> "emit", len |-> ScanStep(data, i).len])
    /\ UNCHANGED <<pc, argc, portOk, sock, closes, wire, reads, chunks, data, out, err>>
    /\ UNCHANGED harnessVars
    /\ UNCHANGED buildVars

\* split_frames leaves the loop and returns frames
ScanEnd ==
    /\ pc = "scan"
    /\ \/ ~(i < Len(data))
       \/ ScanStep(data, i).op = "break"
    /\ seen' = IF i < Len(data)
                THEN Append(seen, [at |-> i, op |-> "break", len |-> 0])
                ELSE seen
    /\ pc' = "decode"
    /\ UNCHANGED <<argc, portOk, sock, closes, wire, reads, chunks, data, i, frames, out, err>>
    /\ UNCHANGED harnessVars
    /\ UNCHANGED buildVars

\* DecodeOne that gives up the rest of the list after a checksum failure
DecodeOneStopsOnCrcFail ==
    /\ pc = "decode"
    /\ frames # <<>>
    /\ decode_message(Head(frames)).kind # "IndexError"
    /\ out' = Append(out, decode_message(Head(frames)))
    /\ frames' = IF decode_message(Head(frames)).kind = "CRCFail"
                  THEN <<>> ELSE Tail(frames)
    /\ UNCHANGED <<pc, argc, portOk, sock, closes, wire, reads, chunks, data, i, err, seen>>
    /\ UNCHANGED harnessVars
    /\ UNCHANGED buildVars

\* DecodeOne whose print lands before the earlier ones
DecodeOnePrepends ==
    /\ pc = "decode"
    /\ frames # <<>>
    /\ decode_message(Head(frames)).kind # "IndexError"
    /\ out' = <<decode_message(Head(frames))>> \o out
    /\ frames' = Tail(frames)
    /\ UNCHANGED <<pc, argc, portOk, sock, closes, wire, reads, chunks, data, i, err, seen>>
    /\ UNCHANGED harnessVars
    /\ UNCHANGED buildVars

\* decode_frames, one call of decode_message that returns
DecodeOne ==
    /\ pc = "decode"
    /\ frames # <<>>
    /\ decode_message(Head(frames)).kind # "IndexError"
    /\ out' = Append(out, decode_message(Head(frames)))
    /\ frames' = Tail(frames)
    /\ UNCHANGED <<pc, argc, portOk, sock, closes, wire, reads, chunks, data, i, err, seen>>
    /\ UNCHANGED harnessVars
    /\ UNCHANGED buildVars

\* decode_message raises: the finally clause closes the socket, main ends
DecodeRaise ==
    /\ pc = "decode"
    /\ frames # <<>>
    /\ decode_message(Head(frames)).kind = "IndexError"
    /\ err' = "IndexError"
    /\ sock' = "closed"
    /\ closes' = closes + 1
    /\ pc' = "exit"
    /\ UNCHANGED <<argc, portOk, wire, reads, chunks, data, i, frames, out, seen>>
    /\ UNCHANGED harnessVars
    /\ UNCHANGED buildVars

\* decode_frames returns: back to the top of the while loop
DecodeEnd ==
    /\ pc = "decode"
    /\ frames = <<>>
    /\ pc' = "recv"
    /\ UNCHANGED <<argc, portOk, sock, closes, wire, reads, chunks, data, i, frames, out, err, seen>>
    /\ UNCHANGED harnessVars
    /\ UNCHANGED buildVars

Next ==
    \/ Usage
    \/ BadPort
    \/ ArgsOk
    \/ ConnectOk
    \/ ConnectFail
    \/ RecvData
    \/ RecvEof
    \/ RecvError
    \/ ScanSkip
    \/ ScanEmit
    \/ ScanEnd
    \/ DecodeOne
    \/ DecodeRaise
    \/ DecodeEnd

Spec == Init /\ [][Next]_vars

----------------------------------------------------------------------------
(* decode_message called directly on checksum-valid frames *)

BodyBytes == {0, 1, 2, 10}

DecodeFunctions == {FC_READ, 4}

DecodeFrames ==
    {MkFrame(<<1, f>> \o b) :
        f \in DecodeFunctions, b \in SeqsUpTo(BodyBytes, MaxBody) \ {<<>>}}

Idle ==
    /\ pc = "direct"
    /\ argc = ArgcWanted
    /\ portOk = TRUE
    /\ sock = "none"
    /\ closes = 0
    /\ wire = <<>>
    /\ reads = 0
    /\ chunks = <<>>
    /\ data = <<>>
    /\ i = 0
    /\ frames = <<>>
    /\ out = <<>>
    /\ err = "none"
    /\ seen = <<>>

InitDecode ==
    /\ Idle
    /\ base \in DecodeFrames
    /\ msg = <<>>
    /\ res = NoResult
    /\ BuildOff

DecodeValid ==
    /\ res = NoResult
    /\ msg' = base
    /\ res' = decode_message(base)
    /\ UNCHANGED base
    /\ UNCHANGED pumpVars
    /\ UNCHANGED buildVars

NextDecode == DecodeValid

SpecDecode == InitDecode /\ [][NextDecode]_vars

----------------------------------------------------------------------------
(* decode_message called on a checksum-valid frame with one byte replaced *)

MutationBytes == {0, 10}

MutationFrames ==
    {MkFrame(<<1, f>> \o b) :
        f \in DecodeFunctions, b \in SeqsUpTo(MutationBytes, MaxMutBody) \ {<<>>}}

InitMutation ==
    /\ Idle
    /\ base \in MutationFrames
    /\ msg = <<>>
    /\ res = NoResult
    /\ BuildOff

DecodeMutated ==
    /\ res = NoResult
    /\ \E p \in 1..Len(base) : \E v \in (0..255) \ {base[p]} :
          /\ msg' = [base EXCEPT ![p] = v]
          /\ res' = decode_message([base EXCEPT ![p] = v])
    /\ UNCHANGED base
    /\ UNCHANGED pumpVars
    /\ UNCHANGED buildVars

NextMutation == DecodeMutated

SpecMutation == InitMutation /\ [][NextMutation]_vars

----------------------------------------------------------------------------
(* split_frames called directly on arbitrary buffers, then called again on *)
(* the same bytes                                                          *)

ScanBytes == {0, FC_READ, 255}

ScanBuffers == SeqsUpTo(ScanBytes, MaxBuffer) \ {<<>>}

InitScan ==
    /\ pc = "scan"
    /\ argc = ArgcWanted
    /\ portOk = TRUE
    /\ sock = "open"
    /\ closes = 0
    /\ wire = <<>>
    /\ reads = 1
    /\ data \in ScanBuffers
    /\ chunks = <<data>>
    /\ i = 0
    /\ frames = <<>>
    /\ out = <<>>
    /\ err = "none"
    /\ seen = <<>>
    /\ base = <<>>
    /\ msg = <<>>
    /\ res = NoResult
    /\ BuildOff

\* a second call split_frames(data) after the first has returned
Rescan ==
    /\ pc = "decode"
    /\ res = NoResult
    /\ msg' = data
    /\ res' = [kind |-> "Rescan", frames |-> split_frames(data),
               stop |-> SplitFrom(data, 0, <<>>).stop]
    /\ UNCHANGED base
    /\ UNCHANGED pumpVars
    /\ UNCHANGED buildVars

NextScan ==
    \/ ScanSkip
    \/ ScanEmit
    \/ ScanEnd
    \/ Rescan

SpecScan == InitScan /\ [][NextScan]_vars

\* the interpreter keeps running the loop: a step that can be taken is taken
SpecScanFair == SpecScan /\ WF_vars(ScanSkip \/ ScanEmit \/ ScanEnd)

----------------------------------------------------------------------------
(* scripts/post_build.py: run_command, the git helpers and main *)

\* what run_command returns when the command exits with an error
None == "<None>"

\* stdout of `git rev-parse --is-inside-work-tree`, stripped
RevParseWorkTree(dir) ==
    IF dir = "repo" THEN "true" ELSE IF dir = "gitdir" THEN "false" ELSE None

\* stdout of `git status --porcelain`, stripped, when the command succeeds
StatusPorcelain(n) == IF n = 0 THEN "" ELSE "M file"

\* stdout of `git rev-parse --abbrev-ref HEAD`, stripped, when it succeeds
AbbrevRef(d) == IF d THEN "HEAD" ELSE "main"

git_is_repo(result) == result = "true"

git_has_changes(result) == result # ""

\* `not result` in git_commit_build
CommitFailed(result) == result = None \/ result = ""

BuildIdle ==
    /\ Idle
    /\ base = <<>>
    /\ msg = <<>>
    /\ res = NoResult

InitBuild ==
    /\ BuildIdle
    /\ step = "is_repo"
    /\ where \in {"repo", "gitdir", "none"}
    /\ changes \in 0..MaxChanges
    /\ detached \in BOOLEAN
    /\ branch = ""
    /\ staged = 0
    /\ adds = 0
    /\ commits = 0
    /\ committed = FALSE
    /\ tags = 0
    /\ tagged = FALSE
    /\ exit_code = -1

\* main: not git_is_repo(), return 0
NotARepo ==
    /\ step = "is_repo"
    /\ ~git_is_repo(RevParseWorkTree(where))
    /\ exit_code' = 0
    /\ step' = "done"
    /\ UNCHANGED <<where, changes, detached, branch, staged, adds, commits, committed, tags, tagged>>
    /\ UNCHANGED <<pumpVars, harnessVars>>

InRepo ==
    /\ step = "is_repo"
    /\ git_is_repo(RevParseWorkTree(where))
    /\ step' = "has_changes"
    /\ UNCHANGED <<where, changes, detached, branch, staged, adds, commits, committed, tags, tagged, exit_code>>
    /\ UNCHANGED <<pumpVars, harnessVars>>

\* main: not git_has_changes(), return 0
NoChanges ==
    /\ step = "has_changes"
    /\ \E result \in {StatusPorcelain(changes), None} :
           ~git_has_changes(result)
    /\ exit_code' = 0
    /\ step' = "done"
    /\ UNCHANGED <<where, changes, detached, branch, staged, adds, commits, committed, tags, tagged>>
    /\ UNCHANGED <<pumpVars, harnessVars>>

\* git_has_changes() is true: git status printed something, or it failed
HasChanges ==
    /\ step = "has_changes"
    /\ \E result \in {StatusPorcelain(changes), None} :
           git_has_changes(result)
    /\ step' = "branch"
    /\ UNCHANGED <<where, changes, detached, branch, staged, adds, commits, committed, tags, tagged, exit_code>>
    /\ UNCHANGED <<pumpVars, harnessVars>>

\* main: branch == "HEAD", return 0
DetachedHead ==
    /\ step = "branch"
    /\ \E b \in {AbbrevRef(detached), None} : b = "HEAD" /\ branch' = b
    /\ exit_code' = 0
    /\ step' = "done"
    /\ UNCHANGED <<where, changes, detached, staged, adds, commits, committed, tags, tagged>>
    /\ UNCHANGED <<pumpVars, harnessVars>>

\* branch is a name, or None because the command failed
OnBranch ==
    /\ step = "branch"
    /\ \E b \in {AbbrevRef(detached), None} : b # "HEAD" /\ branch' = b
    /\ step' = "add"
    /\ UNCHANGED <<where, changes, detached, staged, adds, commits, committed, tags, tagged, exit_code>>
    /\ UNCHANGED <<pumpVars, harnessVars>>

\* git_commit_build: run_command("git add -A"), its result is not looked at
StageAll ==
    /\ step = "add"
    /\ adds' = adds + 1
    /\ \E ok \in BOOLEAN : staged' = IF ok THEN changes ELSE 0
    /\ step' = "commit"
    /\ UNCHANGED <<where, changes, detached, branch, commits, committed, tags, tagged, exit_code>>
    /\ UNCHANGED <<pumpVars, harnessVars>>

\* git commit fails (always with nothing staged): git_commit_build returns
\* False, main returns 1
CommitFails ==
    /\ step = "commit"
    /\ CommitFailed(None)
    /\ commits' = commits + 1
    /\ exit_code' = 1
    /\ step' = "done"
    /\ UNCHANGED <<where, changes, detached, branch, staged, adds, committed, tags, tagged>>
    /\ UNCHANGED <<pumpVars, harnessVars>>

\* git commit creates the commit and prints its summary line
CommitDone ==
    /\ step = "commit"
    /\ staged > 0
    /\ ~CommitFailed("[main 1a2b3c4] Auto-commit after successful build")
    /\ commits' = commits + 1
    /\ committed' = TRUE
    /\ staged' = 0
    /\ step' = "tag"
    /\ UNCHANGED <<where, changes, detached, branch, adds, tags, tagged, exit_code>>
    /\ UNCHANGED <<pumpVars, harnessVars>>

\* git tag, its result is not looked at; git_commit_build returns True and
\* main returns 0
CreateTag ==
    /\ step = "tag"
    /\ tags' = tags + 1
    /\ tagged' \in BOOLEAN
    /\ exit_code' = 0
    /\ step' = "done"
    /\ UNCHANGED <<where, changes, detached, branch, staged, adds, commits, committed>>
    /\ UNCHANGED <<pumpVars, harnessVars>>

NextBuild ==
    \/ NotARepo
    \/ InRepo
    \/ NoChanges
    \/ HasChanges
    \/ DetachedHead
    \/ OnBranch
    \/ StageAll
    \/ CommitFails
    \/ CommitDone
    \/ CreateTag

SpecBuild == InitBuild /\ [][NextBuild]_vars

----------------------------------------------------------------------------
(* Properties *)

\* the candidates split_frames returns for each chunk, one list
RECURSIVE AllCandidates(_)
AllCandidates(cs) ==
    IF cs = <<>> THEN <<>>
    ELSE split_frames(Head(cs)) \o AllCandidates(Tail(cs))

IsCrcNotice(e) == e.kind = "CRCFail"

\* everything received so far has been drained (or the script has ended)
Drained == sock # "none" /\ pc \in {"recv", "exit"}

\* C1 (as claimed): a checksum-valid frame delivered over two consecutive
\* reads gives the sink the same messages as the same frame delivered in one
\* read.
C1_SplitDeliverySame ==
    (pc = "recv" /\ Len(chunks) = 2 /\ wire = <<>>
        /\ (chunks[1] \o chunks[2]) \in ValidFrames)
    => Messages(out)
         = Messages(decode_frames(split_frames(chunks[1] \o chunks[2])).out)

\* C2 (as claimed): garbage bytes, none of them 0x03, followed by a
\* checksum-valid frame with function code 0x03 and any unit id: split_frames
\* returns exactly that frame, and it is decoded and printed.
C2_Resync ==
    \A g \in Garbage \ {<<>>} : \A f \in Requests \cup Responses :
        (Len(chunks) = 1 /\ chunks[1] = g \o f /\ wire = <<>>)
        => /\ (pc = "decode" /\ out = <<>>) => frames = <<f>>
           /\ pc = "recv" => out = <<decode_message(f)>>

\* C3 (as claimed): nothing in the received bytes makes frame splitting or
\* decoding raise an error that ends the session.
C3_NoFrameFatal == err # "IndexError"

\* C4 (as claimed): a checksum-valid 8-byte request with function code 0x03
\* that lies whole at the cursor is extracted as one 8-byte candidate, and a
\* read that delivers just that request prints its RequestFrame.
C4_RequestDelivered ==
    /\ (pc = "scan" /\ i + RequestLen <= Len(data)
           /\ Slice(data, i, i + RequestLen) \in Requests)
       => ScanStep(data, i) = [op |-> "emit", len |-> RequestLen]
    /\ (pc = "recv" /\ Len(chunks) = 1 /\ chunks[1] \in Requests)
       => out = <<[kind |-> "Request", unit_id |-> chunks[1][1],
                   function_code |-> FC_READ,
                   start_address |-> chunks[1][3] * 256 + chunks[1][4],
                   register_count |-> chunks[1][5] * 256 + chunks[1][6]]>>

\* C5: a candidate that fails the checksum prints a notice and no message,
\* and the candidates after it, in the same read and in later reads, are
\* decoded exactly as if the failed candidate were not there.
C5_CrcFailureLocal ==
    Drained =>
        LET cand == AllCandidates(chunks)
            good == SelectSeq(cand, CrcMatches)
            kept == decode_frames(good)
        IN /\ out = decode_frames(cand).out
           /\ Messages(out) = kept.out
           /\ (err = "IndexError") = (kept.err = "IndexError")
           /\ pc = "recv"
              => Len(SelectSeq(out, IsCrcNotice)) = Len(cand) - Len(good)

C5_Witness ==
    /\ pc = "recv"
    /\ \E k \in 1..Len(out) : \E j \in 1..Len(out) :
          k < j /\ IsCrcNotice(out[k]) /\ IsMessage(out[j])

\* C6 (as claimed): a checksum-valid frame whose function code is not 0x03,
\* received whole, is printed by the read loop as an UnsupportedFrame with
\* that function code.
C6_UnsupportedReported ==
    (pc = "recv" /\ Len(chunks) = 1 /\ chunks[1] \in Foreign)
    => \E k \in 1..Len(out) :
          out[k] = [kind |-> "Unsupported", function_code |-> chunks[1][2]]

\* C6 (amended): every candidate split_frames hands to the decoder has
\* function code 0x03, so the read loop never prints an UnsupportedFrame; a
\* frame with another function code is passed over byte by byte.
C6_PumpNeverUnsupported ==
    /\ \A k \in 1..Len(out) : out[k].kind # "Unsupported"
    /\ \A k \in 1..Len(frames) : frames[k][2] = FC_READ

C6_Witness ==
    /\ pc = "recv"
    /\ Len(chunks) = 1
    /\ chunks[1] \in Foreign
    /\ out = <<>>

\* C7 (as claimed): decode_message gives every checksum-valid frame of
\* length >= 5 exactly one message and no error: RequestFrame for function
\* code 0x03 and length 8, ResponseFrame for 0x03 and another length,
\* UnsupportedFrame with the function code otherwise.
C7_DecoderTotal ==
    res # NoResult
    => /\ res.kind = IF base[2] = FC_READ
                     THEN IF Len(base) = RequestLen THEN "Request" ELSE "Response"
                     ELSE "Unsupported"
       /\ res.kind = "Unsupported" => res.function_code = base[2]

RequestVector == <<1, 3, 0, 0, 0, 10, 197, 205>>

\* C8: the CRC of 01 03 00 00 00 0A is 0xCDC5, the frame
\* 01 03 00 00 00 0A C5 CD passes the checksum test and decodes to
\* RequestFrame{unit_id=1, function_code=3, start_address=0, register_count=10}.
C8_RequestVector ==
    /\ crc16(<<1, 3, 0, 0, 0, 10>>) = 52677
    /\ CrcMatches(RequestVector)
    /\ msg = RequestVector
       => res = [kind |-> "Request", unit_id |-> 1, function_code |-> 3,
                 start_address |-> 0, register_count |-> 10]

C8_Witness == msg = RequestVector /\ res.kind = "Request"

ResponseVector == <<1, 3, 2, 0, 10, 56, 67>>

\* C9: the CRC of 01 03 02 00 0A has low byte 0x38 and high byte 0x43, the
\* frame 01 03 02 00 0A 38 43 passes the checksum test and decodes to
\* ResponseFrame{unit_id=1, function_code=3, byte_count=2, registers=[10]}.
C9_ResponseVector ==
    /\ crc16(<<1, 3, 2, 0, 10>>) % 256 = 56
    /\ crc16(<<1, 3, 2, 0, 10>>) \div 256 = 67
    /\ CrcMatches(ResponseVector)
    /\ msg = ResponseVector
       => res = [kind |-> "Response", unit_id |-> 1, function_code |-> 3,
                 byte_count |-> 2, registers |-> <<10>>]

C9_Witness == msg = ResponseVector /\ res.kind = "Response"

\* C10: a checksum-valid frame with any single byte, payload or checksum,
\* replaced by a different value fails the checksum test and is not decoded.
C10_SingleByteRejected ==
    res # NoResult => /\ ~CrcMatches(msg)
                      /\ res = [kind |-> "CRCFail"]

C10_Witness ==
    /\ res = [kind |-> "CRCFail"]
    /\ Len(msg) = RequestLen
    /\ \E p \in 1..(Len(base) - 2) : msg[p] # base[p]

\* C11: once split_frames has processed a buffer, calling it again on the same
\* bytes emits no candidate and leaves the buffer as it was, so that no frame
\* is emitted twice.
C11_RescanEmitsNothing ==
    res.kind = "Rescan" => (res.frames = <<>> /\ msg = data)

\* C12: a read that returns no bytes ends the loop cleanly (socket closed once,
\* no error), and the loop ends in no other way once a read has returned
\* bytes: a read with at least one byte is always followed by another read.
C12_DataReadGoesOn ==
    /\ (pc = "exit" /\ sock = "closed" /\ err = "none")
           => (data = <<>> /\ closes = 1 /\ reads = Len(chunks) + 1)
    /\ (pc = "exit" /\ sock = "closed") => reads > Len(chunks)

\* C13: with an argument count other than 3, a port that is no number, or a
\* connection that cannot be made, the script ends with the failure reported
\* before the read loop: no read is issued, no socket was opened and nothing
\* is handed to the sink.
C13_FatalStartup ==
    /\ (argc # ArgcWanted /\ pc # "argcheck")
           => (pc = "exit" /\ err = "SystemExit" /\ out = <<[kind |-> "Usage"]>>)
    /\ (argc = ArgcWanted /\ ~portOk /\ pc # "argcheck")
           => (pc = "exit" /\ err = "ValueError")
    /\ err \in {"SystemExit", "ValueError", "ConnectError"}
           => /\ pc = "exit"
              /\ reads = 0
              /\ chunks = <<>>
              /\ sock = "none"
              /\ Messages(out) = <<>>

C13_Witness ==
    /\ pc = "exit"
    /\ argc # ArgcWanted
    /\ err = "SystemExit"
    /\ reads = 0

\* C14: on every buffer split_frames does what the specified algorithm does:
\* at each cursor the same step, and at the end the same list of candidates
\* and the same stop cursor, although the code asks for 5 available bytes
\* before it classifies a request and the specification for 4.
C14_SplitterAsSpecified ==
    /\ (pc = "scan" /\ i < Len(data))
           => ScanStep(data, i) = SpecifiedStep(data, i)
    /\ pc = "scan"
           => SpecifiedSplitFrom(data, i, frames) = SpecifiedSplitFrom(data, 0, <<>>)
    /\ (pc = "decode" /\ res = NoResult)
           => /\ frames = SpecifiedSplitFrom(data, 0, <<>>).frames
              /\ i = SpecifiedSplitFrom(data, 0, <<>>).stop

\* the cursor stands on function code 0x03 with exactly 4 bytes left and a
\* value of at most 125 at offsets 2..3: the code takes the response branch,
\* the specification the request branch
C14_Witness ==
    /\ pc = "decode"
    /\ i + 4 = Len(data)
    /\ At(data, i + 1) = FC_READ
    /\ At(data, i + 2) * 256 + At(data, i + 3) <= MaxRegisters
    /\ i > 0

\* C15: every response the pump prints comes from a candidate of length
\* exactly 3 + byte_count + 2, its registers are the big-endian 16-bit values
\* read one after the other from offset 3, and there are byte_count / 2 of
\* them.
C15_ResponseShape ==
    /\ \A k \in 1..Len(out) :
           out[k].kind = "Response"
               => Len(out[k].registers) * 2 = out[k].byte_count
    /\ (pc = "decode" /\ frames # <<>>
            /\ decode_message(Head(frames)).kind = "Response")
           => LET f == Head(frames)
                  r == decode_message(f)
              IN /\ r.byte_count = At(f, 2)
                 /\ Len(f) = 3 + r.byte_count + 2
                 /\ Len(r.registers) * 2 = r.byte_count
                 /\ \A j \in 1..Len(r.registers) :
                        r.registers[j] = At(f, 3 + 2 * (j - 1)) * 256
                                         + At(f, 3 + 2 * (j - 1) + 1)

C15_Witness ==
    \E k \in 1..Len(out) :
        /\ out[k].kind = "Response"
        /\ out[k].byte_count = 2
        /\ out[k].registers = <<10>>

\* the cursor k stands on the whole frame f
FrameAtCursor(f, bytes, k) ==
    /\ k < Len(bytes)
    /\ Slice(bytes, k, k + Len(f)) = f

\* C16 as stated: a response frame at the cursor is extracted as an 8-byte
\* request candidate exactly when its byte count is 0 and the byte after it is
\* at most 0x7D, and with a byte count of 1 or more it is extracted with
\* length 3 + byte_count + 2.
C16_MisclassifiedIff ==
    \A f \in Responses :
        (pc = "scan" /\ FrameAtCursor(f, data, i))
            => /\ (RequestClass(data, i)
                      /\ ScanStep(data, i) = [op |-> "emit", len |-> RequestLen])
                   <=> (At(f, 2) = 0 /\ At(f, 3) <= MaxRegisters)
               /\ At(f, 2) >= 1
                   => ScanStep(data, i) = [op |-> "emit", len |-> 3 + At(f, 2) + 2]

\* C16, amended: a response frame at the cursor is classified as a request
\* exactly when its byte count is 0 and the byte after it is at most 0x7D; it
\* is then extracted as an 8-byte candidate when 8 bytes are available at the
\* cursor, and otherwise the scan stops there with nothing extracted.  Every
\* other response frame is extracted with length 3 + byte_count + 2.
C16_MisclassifiedExtent ==
    \A f \in Responses :
        (pc = "scan" /\ FrameAtCursor(f, data, i))
            => /\ RequestClass(data, i)
                   <=> (At(f, 2) = 0 /\ At(f, 3) <= MaxRegisters)
               /\ RequestClass(data, i)
                   => ScanStep(data, i) =
                          IF i + RequestLen <= Len(data)
                          THEN [op |-> "emit", len |-> RequestLen]
                          ELSE [op |-> "break", len |-> 0]
               /\ ~RequestClass(data, i)
                   => ScanStep(data, i) = [op |-> "emit", len |-> 3 + At(f, 2) + 2]

\* a response with byte count 0 and a low checksum byte <= 0x7D has been
\* extracted together with the 3 bytes that follow it
C16_Witness ==
    \E k \in 1..Len(seen) :
        /\ seen[k].op = "emit"
        /\ seen[k].len = RequestLen
        /\ FrameAtCursor(Response(1, <<>>), data, seen[k].at)

\* C17: after a candidate of length L has been taken at cursor i, the scan
\* goes on at i + L whatever its checksum turns out to be: no position inside
\* a candidate is ever examined as a frame start, so a valid frame that
\* begins inside a candidate that fails its checksum is not recovered.
C17_NoRestartInsideCandidate ==
    /\ \A a \in 1..Len(seen) :
           seen[a].op = "emit"
               => /\ \A b \in 1..Len(seen) :
                         ~(seen[a].at < seen[b].at
                             /\ seen[b].at < seen[a].at + seen[a].len)
                  /\ a < Len(seen) => seen[a + 1].at = seen[a].at + seen[a].len
                  /\ (a = Len(seen) /\ pc = "scan") => i = seen[a].at + seen[a].len
    /\ pc = "scan" => \A a \in 1..Len(seen) : seen[a].at < i

\* the read has been processed; a candidate failed its checksum, and a
\* checksum-valid frame starts inside it
C17_Witness ==
    /\ pc = "recv"
    /\ \E a \in 1..Len(seen) :
           /\ seen[a].op = "emit"
           /\ ~CrcMatches(Slice(data, seen[a].at, seen[a].at + seen[a].len))
           /\ \E f \in ValidFrames :
                  \E p \in (seen[a].at + 1)..(seen[a].at + seen[a].len - 1) :
                      FrameAtCursor(f, data, p)
    /\ \E k \in 1..Len(out) : out[k].kind = "CRCFail"
    /\ Messages(out) = <<>>

\* C18: the candidates of a read are all decoded, in the order of the byte
\* stream, before the next read is issued: at a read nothing is pending and
\* the prints are those of all candidates so far in order; while a read is
\* being scanned the prints are those of the earlier reads; while its
\* candidates are decoded, the prints are those of the candidates before the
\* pending ones.
C18_Sequential ==
    LET cand == AllCandidates(chunks)
        done == Len(cand) - Len(frames)
    IN /\ pc = "recv" => (frames = <<>> /\ out = decode_frames(cand).out)
       /\ pc = "scan"
              => out = decode_frames(
                           AllCandidates(SubSeq(chunks, 1, Len(chunks) - 1))).out
       /\ pc = "decode"
              => /\ done >= 0
                 /\ frames = SubSeq(cand, done + 1, Len(cand))
                 /\ out = decode_frames(SubSeq(cand, 1, done)).out

\* two reads, a frame in each, both delivered in stream order
C18_Witness ==
    /\ pc = "recv"
    /\ reads = 2
    /\ Len(chunks) = 2
    /\ Len(out) = 2
    /\ out[1].kind = "Request"
    /\ out[2].kind = "Response"
    /\ split_frames(chunks[1]) # <<>>
    /\ split_frames(chunks[2]) # <<>>

IsEmit(s) == s.op = "emit"

\* C19: when split_frames stops at cursor i with bytes left, either fewer than
\* 4 bytes are left, or the byte at i + 1 is 0x03 and the inferred length, at
\* most 260, exceeds the bytes left; so fewer than 260 bytes are left
\* unscanned.  Every iteration before the stop either skipped one byte or
\* emitted its candidate, and the list returned holds those candidates.
C19_StopCondition ==
    (pc = "decode" /\ res = NoResult)
        => /\ i < Len(data)
               => /\ \/ Len(data) - i < 4
                     \/ /\ At(data, i + 1) = FC_READ
                        /\ FrameLen(data, i) > Len(data) - i
                        /\ FrameLen(data, i) <= MaxFrameLen
                  /\ Len(data) - i < MaxFrameLen
                  /\ seen # <<>>
                  /\ seen[Len(seen)] = [at |-> i, op |-> "break", len |-> 0]
           /\ \A a \in 1..(Len(seen) - 1) : seen[a].op # "break"
           /\ LET emitted == SelectSeq(seen, IsEmit)
              IN /\ Len(frames) = Len(emitted)
                 /\ \A a \in 1..Len(emitted) :
                        frames[a] = Slice(data, emitted[a].at,
                                          emitted[a].at + emitted[a].len)

\* stopped after a skip, with 4 or more bytes left, at a frame whose byte
\* count of 255 asks for 260 bytes
C19_Witness ==
    /\ pc = "decode"
    /\ i > 0
    /\ Len(data) - i >= 4
    /\ FrameLen(data, i) = MaxFrameLen

\* C20: every candidate of split_frames has function code 0x03 at offset 1
\* and a length of 8 or of 3 + byte[2] + 2, so at least 5 bytes; the pump
\* therefore never prints the decoder's notice for a message shorter than 5.
C20_CandidateShape ==
    /\ \A k \in 1..Len(frames) :
           /\ Len(frames[k]) >= 2
           /\ At(frames[k], 1) = FC_READ
           /\ \/ Len(frames[k]) = RequestLen
              \/ Len(frames[k]) = 3 + At(frames[k], 2) + 2
           /\ Len(frames[k]) >= MinMessageLen
    /\ \A k \in 1..Len(out) : out[k].kind # "Incomplete"

\* a candidate of the smallest length, 5, has been extracted and decoded
C20_Witness ==
    /\ pc = "recv"
    /\ \E a \in 1..Len(seen) : seen[a].op = "emit" /\ seen[a].len = MinMessageLen
    /\ out # <<>>

\* C21: decode_message tells request from response by the length alone,
\* whatever branch of split_frames produced the candidate: a checksum-valid
\* candidate taken as a response with byte count 3, hence of length 8, prints
\* a request whose start address is read from the byte count and the first
\* data byte; every checksum-valid candidate taken as a request prints a
\* request; and a checksum-valid candidate prints a request exactly when its
\* length is 8.
C21_DecodedByLength ==
    /\ \A a \in 1..Len(seen) :
           (seen[a].op = "emit" /\ pc \in {"scan", "decode", "recv"})
               => LET f == Slice(data, seen[a].at, seen[a].at + seen[a].len)
                      r == decode_message(f)
                  IN /\ RequestClass(data, seen[a].at)
                         => /\ Len(f) = RequestLen
                            /\ r.kind \in {"Request", "CRCFail"}
                     /\ (~RequestClass(data, seen[a].at) /\ At(f, 2) = 3)
                         => /\ Len(f) = RequestLen
                            /\ r.kind \in {"Request", "CRCFail"}
                     /\ CrcMatches(f)
                         => /\ (r.kind = "Request") <=> (Len(f) = RequestLen)
                            /\ r.kind = "Request"
                                => r.start_address = At(f, 2) * 256 + At(f, 3)
    /\ (pc = "recv" /\ Len(chunks) = 1)
           => LET emitted == SelectSeq(seen, IsEmit)
              IN /\ Len(out) = Len(emitted)
                 /\ \A a \in 1..Len(emitted) :
                        out[a] = decode_message(
                                     Slice(data, emitted[a].at,
                                           emitted[a].at + emitted[a].len))

\* a checksum-valid response with byte count 3 was taken by the response
\* branch and printed as a request with start address 0x0300
C21_Witness ==
    /\ pc = "recv"
    /\ \E a \in 1..Len(seen) :
           /\ seen[a].op = "emit"
           /\ ~RequestClass(data, seen[a].at)
           /\ FrameAtCursor(Response(1, <<0, 1, 2>>), data, seen[a].at)
    /\ \E k \in 1..Len(out) :
           out[k].kind = "Request" /\ out[k].start_address = 768

\* C22: the candidates of one split_frames call are slices of the input, in
\* increasing position and without overlap: the iterations start at 0 and each
\* one starts where the one before ended, so every byte before the cursor lies
\* in exactly one candidate or was passed over by one single-byte step; the
\* list returned holds the slices in that order, and the input is as it was
\* received.
C22_ContiguousSlices ==
    (pc \in {"scan", "decode"} /\ res = NoResult)
        => /\ data = chunks[Len(chunks)]
           /\ seen # <<>> => seen[1].at = 0
           /\ \A a \in 1..(Len(seen) - 1) :
                  seen[a + 1].at = seen[a].at + seen[a].len
           /\ \A a \in 1..Len(seen) :
                  /\ seen[a].op = "skip" => seen[a].len = 1
                  /\ seen[a].op = "emit" => seen[a].len >= 1
                  /\ seen[a].at + seen[a].len <= Len(data)
           /\ i = IF seen = <<>> THEN 0
                  ELSE seen[Len(seen)].at + seen[Len(seen)].len
           /\ \A p \in 0..(i - 1) :
                  Cardinality({a \in 1..Len(seen) :
                                   seen[a].at <= p
                                   /\ p < seen[a].at + seen[a].len}) = 1
           /\ LET emitted == SelectSeq(seen, IsEmit)
              IN /\ Len(frames) = Len(emitted)
                 /\ \A a \in 1..Len(emitted) :
                        /\ Len(frames[a]) = emitted[a].len
                        /\ \A p \in 1..Len(frames[a]) :
                               frames[a][p] = At(data, emitted[a].at + p - 1)

\* a call that first passed over a byte and then took a candidate
C22_Witness ==
    /\ pc = "decode"
    /\ Len(seen) >= 2
    /\ seen[1].op = "skip"
    /\ seen[2].op = "emit"
    /\ frames # <<>>

\* in every iteration so far the cursor stood further on than in the one
\* before, by 1 after a skip and by the candidate's length, at least 5, after
\* an emit; there were no more iterations than the buffer has bytes
ScanAdvances ==
    /\ i <= Len(data)
    /\ Len(seen) <= Len(data)
    /\ \A a \in 1..Len(seen) :
           /\ seen[a].op = "skip" => seen[a].len = 1
           /\ seen[a].op = "emit" => seen[a].len >= MinMessageLen
           /\ seen[a].op = "break" => a = Len(seen) /\ pc = "decode"
           /\ a < Len(seen) => seen[a + 1].at = seen[a].at + seen[a].len
           /\ a < Len(seen) => seen[a + 1].at > seen[a].at
    /\ (pc = "scan" /\ seen # <<>>) => i > seen[Len(seen)].at

\* C23: the loop of split_frames ends on every buffer: each iteration either
\* leaves the loop or moves the cursor strictly forward (by 1 on a skip, by
\* the candidate's length of at least 5 on an emit), there are never more
\* iterations than the buffer has bytes, and the call returns.
C23_ScanTerminates == []ScanAdvances /\ <>(pc = "decode")

\* the call has returned after as many iterations as a buffer of this length
\* allows when every byte is passed over
C23_Witness ==
    /\ pc = "decode"
    /\ Len(data) = MaxBuffer
    /\ Len(seen) = Len(data) - 3 + 1
    /\ \A a \in 1..(Len(seen) - 1) : seen[a].op = "skip"

\* C24: when a read fails on an established connection the error ends the
\* script: the failed read is the last one, the socket is not opened again
\* and it has been closed exactly once; it has likewise been closed exactly
\* once when the loop ended on an empty read or on an error raised while the
\* frames were processed, and it is never closed while the loop runs.
C24_ClosedOnce ==
    /\ closes <= 1
    /\ sock = "open" => (closes = 0 /\ pc \in {"recv", "scan", "decode"})
    /\ sock = "closed" => (closes = 1 /\ pc = "exit")
    /\ (pc = "exit" /\ sock # "none") => (sock = "closed" /\ closes = 1)
    /\ err = "RecvError"
           => /\ pc = "exit"
              /\ sock = "closed"
              /\ closes = 1
              /\ reads = Len(chunks) + 1
    /\ err = "IndexError" => (pc = "exit" /\ sock = "closed" /\ closes = 1)
    /\ (pc = "exit" /\ err = "none") => (sock = "closed" /\ closes = 1)

\* a read failed after an earlier read had returned bytes
C24_Witness ==
    /\ pc = "exit"
    /\ err = "RecvError"
    /\ chunks # <<>>
    /\ sock = "closed"
    /\ closes = 1

\* C25: the build script runs git add or git commit only in a git
\* repository with uncommitted changes and HEAD on a branch, and otherwise
\* ends with status 0 having staged and committed nothing; the tag is created
\* only after the commit has been created; and the status is 1 exactly when
\* a commit was attempted and failed.
C25_CommitSequencing ==
    LET eligible == where = "repo" /\ changes > 0 /\ ~detached
    IN /\ (adds > 0 \/ commits > 0 \/ step \in {"add", "commit", "tag"})
              => eligible
       /\ (step = "done" /\ ~eligible)
              => (exit_code = 0 /\ adds = 0 /\ commits = 0)
       /\ tags > 0 => committed
       /\ tagged => committed
       /\ step = "done"
              => ((exit_code = 1) <=> (commits > 0 /\ ~committed))
       /\ step # "done" => exit_code = -1

====
